---------------------------- MODULE Spec2Model ----------------------------
(***************************************************************************)
(* A model of appendlengthtoCSV.py: the QGIS Processing algorithm          *)
(* ExampleProcessingAlgorithm.processAlgorithm, which sums the geodesic    *)
(* length of four line layers, rounds each sum to whole kilometres and     *)
(* appends two rows (after a header, when the file is empty) to a CSV      *)
(* file.                                                                   *)
(*                                                                         *)
(* Text is modelled as a sequence of one-character strings, so the CSV     *)
(* writer's quoting and line terminators are part of the model.  Lengths   *)
(* are integers in decimetres (12,345.6 m is 123456), so that the          *)
(* conversion to kilometres and its rounding are exact.  The file is       *)
(* opened in text mode with the default newline, so each line feed         *)
(* written becomes the platform's line separator.                          *)
(***************************************************************************)
EXTENDS Integers, Sequences, FiniteSets, TLC

VARIABLES
    linesep,        \* os.linesep of the platform the plugin runs on
    exists,         \* whether the output path names a file
    content,        \* the characters of the file at the output path
    pc,             \* position of processAlgorithm
    sources,        \* dict sources: layer name -> resolved source or None
    country_name,   \* parameterAsString(COUNTRY_NAME)
    features,       \* lengths measured for the features of the layer iterated last
    sumlength,      \* local sumlength of the loop
    distances,      \* dict distances: layer name -> rounded kilometres
    rows_to_write,  \* local rows_to_write of the with block
    f,              \* the file object of the with block
    written,        \* rows writerows has written
    error,          \* the exception that ended the invocation, if any
    history,        \* the inputs of the invocations that returned, in order
    exists0,        \* the file as the current invocation found it
    content0

vars == <<linesep, exists, content, pc, sources, country_name, features, sumlength,
          distances, rows_to_write, f, written, error, history, exists0, content0>>

-----------------------------------------------------------------------------
(* Bounds of the model. *)

MaxFeatures == 2

MaxRuns == 2

-----------------------------------------------------------------------------
(* The layers, in the insertion order of the dict sources. *)

Order == <<"total_added", "total_modified", "kaart_added", "kaart_modified">>

Layers == {Order[i] : i \in 1..Len(Order)}

None == "None"

Source == "QgsProcessingFeatureSource"

EmptyDict == [n \in {} |-> 0]

DictPut(d, k, v) == [n \in (DOMAIN d) \cup {k} |-> IF n = k THEN v ELSE d[n]]

(* The attributes the class body defines for parameter names. *)
ClassAttributes ==
    {"TOTAL_ADDED", "TOTAL_MODIFIED", "KAART_ADDED", "KAART_MODIFIED",
     "COUNTRY_NAME", "OUTPUT"}

(* The exception the validation loop ends with: it evaluates self.INPUT   *)
(* for the argument of invalidSourceError before the raise.               *)
InvalidSourceRaise ==
    IF "INPUT" \in ClassAttributes THEN "QgsProcessingException"
                                   ELSE "AttributeError"

(* Mutant: only the first source is checked. *)
FirstUnresolved(srcs) == srcs["total_added"] = None

(* for v in sources.values(): if v is None *)
AnyUnresolved(srcs) == \E n \in Layers : srcs[n] = None

-----------------------------------------------------------------------------
(* Length aggregation. *)

UnitsPerKm == 10000

(* Mutant: the sum keeps only the last feature's length. *)
LastLength(fs) == IF fs = <<>> THEN 0 ELSE fs[Len(fs)]

RECURSIVE SumLength(_)
SumLength(fs) == IF fs = <<>> THEN 0 ELSE Head(fs) + SumLength(Tail(fs))

(* convertLengthMeasurement(sumlength, DistanceKilometers) as the exact    *)
(* quotient and remainder of the sum by one kilometre.                     *)
ConvertKm(s) == [whole |-> s \div UnitsPerKm, part |-> s % UnitsPerKm]

(* Mutant: ties go upward. *)
RoundHalfUp(km) == IF 2 * km.part < UnitsPerKm THEN km.whole ELSE km.whole + 1

(* Python's round() of a float to an int: nearest, ties to even. *)
Round(km) ==
    IF 2 * km.part < UnitsPerKm THEN km.whole
    ELSE IF 2 * km.part > UnitsPerKm THEN km.whole + 1
    ELSE IF km.whole % 2 = 0 THEN km.whole ELSE km.whole + 1

FeatureSeqs(lengths, n) == UNION {[1..k -> lengths] : k \in 0..n}

-----------------------------------------------------------------------------
(* Text and the csv writer. *)

S_Country == <<"C", "o", "u", "n", "t", "r", "y">>
S_DataChange == <<"D", "a", "t", "a", " ", "C", "h", "a", "n", "g", "e">>
S_Kaart == <<"K", "a", "a", "r", "t">>
S_Total == <<"T", "o", "t", "a", "l">>
S_Added == <<"K", "m", " ", "o", "f", " ", "r", "o", "a", "d", " ",
             "a", "d", "d", "e", "d">>
S_Modified == <<"K", "m", " ", "o", "f", " ", "r", "o", "a", "d", " ",
                "e", "d", "i", "t", "e", "d", " ", "o", "r", " ",
                "m", "o", "d", "i", "f", "i", "e", "d">>

StrCell(s) == [kind |-> "str", val |-> s]
IntCell(i) == [kind |-> "int", val |-> i]

Digits == <<"0", "1", "2", "3", "4", "5", "6", "7", "8", "9">>

(* str() of a non-negative int. *)
RECURSIVE Str(_)
Str(n) == IF n < 10 THEN <<Digits[n + 1]>>
          ELSE Str(n \div 10) \o <<Digits[(n % 10) + 1]>>

CellText(c) == IF c.kind = "int" THEN Str(c.val) ELSE c.val

Delimiter == ","
QuoteChar == "\""
LineTerminator == <<"\r", "\n">>

(* QUOTE_MINIMAL: a field is quoted when it holds the delimiter, the quote *)
(* character or a character of the line terminator.                        *)
NeedsQuote(s) ==
    \E i \in 1..Len(s) :
        s[i] \in {Delimiter, QuoteChar} \cup {LineTerminator[j] : j \in 1..Len(LineTerminator)}

(* doublequote: each quote character inside a field is written twice. *)
RECURSIVE DoubleQuotes(_)
DoubleQuotes(s) ==
    IF s = <<>> THEN <<>>
    ELSE (IF Head(s) = QuoteChar THEN <<QuoteChar, QuoteChar>> ELSE <<Head(s)>>)
         \o DoubleQuotes(Tail(s))

FieldText(s) ==
    IF NeedsQuote(s) THEN <<QuoteChar>> \o DoubleQuotes(s) \o <<QuoteChar>>
    ELSE s

RECURSIVE JoinFields(_)
JoinFields(cells) ==
    IF Len(cells) = 0 THEN <<>>
    ELSE IF Len(cells) = 1 THEN FieldText(CellText(cells[1]))
    ELSE FieldText(CellText(cells[1])) \o <<Delimiter>> \o JoinFields(Tail(cells))

(* writer.writerow(row) *)
RowText(row) == JoinFields(row) \o LineTerminator

HeaderRow ==
    <<StrCell(S_Country), StrCell(S_DataChange), StrCell(S_Kaart), StrCell(S_Total)>>

(* Mutant: the Total value is written in the Kaart column. *)
AddedRowSwapped(name, d) ==
    <<StrCell(name), StrCell(S_Added),
      IntCell(d["total_added"]), IntCell(d["kaart_added"])>>

AddedRow(name, d) ==
    <<StrCell(name), StrCell(S_Added),
      IntCell(d["kaart_added"]), IntCell(d["total_added"])>>

ModifiedRow(name, d) ==
    <<StrCell(name), StrCell(S_Modified),
      IntCell(d["kaart_modified"]), IntCell(d["total_modified"])>>

(* Mutants: the header decision inverted, and a header on every write. *)
HeaderRowsInverted(tell) == IF tell # 0 THEN <<HeaderRow>> ELSE <<>>

HeaderRowsAlways(tell) == <<HeaderRow>>

(* f.write(s) on a file opened in text mode with the default newline:     *)
(* each line feed of s is written as sep.                                 *)
RECURSIVE TextWrite(_, _)
TextWrite(s, sep) ==
    IF \A i \in 1..Len(s) : s[i] # "\n" THEN s
    ELSE LET i == CHOOSE i \in 1..Len(s) :
                      s[i] = "\n" /\ \A q \in 1..(i - 1) : s[q] # "\n"
         IN  SubSeq(s, 1, i - 1) \o sep \o TextWrite(SubSeq(s, i + 1, Len(s)), sep)

(* writer.writerows(rows): one f.write per row. *)
RECURSIVE WrittenText(_, _)
WrittenText(rows, sep) ==
    IF rows = <<>> THEN <<>>
    ELSE TextWrite(RowText(Head(rows)), sep) \o WrittenText(Tail(rows), sep)

(* [] if f.tell() else [header] *)
HeaderRows(tell) == IF tell # 0 THEN <<>> ELSE <<HeaderRow>>

RowsToWrite(tell, name, d) ==
    HeaderRows(tell) \o <<AddedRow(name, d), ModifiedRow(name, d)>>

-----------------------------------------------------------------------------
(* Inputs. *)

(* Country names: the parameter is a single-line string.  One has a comma *)
(* and a quote in it.                                                     *)
CountryNames == {<<"P", "e", "r", "u">>, <<"I", ",", "\"", "C">>}

(* Layers of up to MaxFeatures features of 500 m or 1 km: the sums reach   *)
(* the ties 0.5 km and 1.5 km.                                             *)
FileLayers == FeatureSeqs({5000, 10000}, MaxFeatures)

(* With features of 1.5 km and 11,845.6 m: the sums reach 2.5 km, and     *)
(* 12,345.6 m as the sum of two features.                                  *)
SurveyLayers == FeatureSeqs({5000, 10000, 15000, 118456}, MaxFeatures)

(* A layer with no feature, or with one of 1.5 km. *)
RunLayers == {<<>>, <<15000>>}

LineSeparators == {<<"\n">>, <<"\r", "\n">>}

(* A header line as an earlier invocation on the same platform left it. *)
HeaderLine(sep) == TextWrite(RowText(HeaderRow), sep)

PriorFiles(sep) ==
    { [exists |-> FALSE, content |-> <<>>],
      [exists |-> TRUE,  content |-> <<>>],
      [exists |-> TRUE,  content |-> HeaderLine(sep)],
      [exists |-> TRUE,  content |-> <<"x", ",", "y">>] }

FreshFiles ==
    { [exists |-> FALSE, content |-> <<>>],
      [exists |-> TRUE,  content |-> <<>>] }

AbsentFile == { [exists |-> FALSE, content |-> <<>>] }

-----------------------------------------------------------------------------
(* The state before processAlgorithm is called. *)

InitWith(sep, files) ==
    /\ linesep = sep
    /\ \E file \in files :
          /\ exists = file.exists
          /\ content = file.content
          /\ exists0 = file.exists
          /\ content0 = file.content
    /\ pc = "start"
    /\ sources = EmptyDict
    /\ country_name = <<>>
    /\ features = <<>>
    /\ sumlength = 0
    /\ distances = EmptyDict
    /\ rows_to_write = <<>>
    /\ f = "unopened"
    /\ written = 0
    /\ error = "none"
    /\ history = <<>>

Init == \E sep \in LineSeparators : InitWith(sep, PriorFiles(sep))

(* Parameter resolution and the validation loop. *)
Begin(names) ==
    /\ pc = "start"
    /\ \E srcs \in [Layers -> {None, Source}], name \in names :
          /\ sources' = srcs
          /\ country_name' = name
          /\ IF AnyUnresolved(srcs)
             THEN pc' = "failed" /\ error' = InvalidSourceRaise
             ELSE pc' = "measure" /\ error' = error
    /\ UNCHANGED <<linesep, exists, content, features, sumlength, distances,
                   rows_to_write, f, written, history, exists0, content0>>

(* The layer the loop over sources.items() is at. *)
NextLayer == Order[Cardinality(DOMAIN distances) + 1]

AfterLayer(d) == IF DOMAIN d = Layers THEN "open" ELSE "measure"

(* One iteration of the loop over sources.items(). *)
MeasureLayer(layers) ==
    /\ pc = "measure"
    /\ sources[NextLayer] # None
    /\ \E fs \in layers :
          /\ features' = fs
          /\ sumlength' = SumLength(fs)
          /\ distances' = DictPut(distances, NextLayer, Round(ConvertKm(SumLength(fs))))
    /\ pc' = AfterLayer(distances')
    /\ UNCHANGED <<linesep, exists, content, sources, country_name, rows_to_write, f,
                   written, error, history, exists0, content0>>

(* Mutant: the file is opened before the loop, so a failed iteration      *)
(* leaves it created.                                                     *)
MeasureFailsFileOpened ==
    /\ pc = "measure"
    /\ pc' = "failed"
    /\ error' = IF sources[NextLayer] = None THEN "AttributeError" ELSE "MeasureError"
    /\ exists' = TRUE
    /\ f' = "closed"
    /\ UNCHANGED <<linesep, content, sources, country_name, features, sumlength,
                   distances, rows_to_write, written, history, exists0, content0>>

(* An iteration that raises: the layer or the measurement fails. *)
MeasureFails ==
    /\ pc = "measure"
    /\ pc' = "failed"
    /\ error' = IF sources[NextLayer] = None THEN "AttributeError" ELSE "MeasureError"
    /\ UNCHANGED <<linesep, exists, content, sources, country_name, features, sumlength,
                   distances, rows_to_write, f, written, history, exists0, content0>>

(* dest_path.open("a"), f.tell() and the rows to write. *)
OpenAppend ==
    /\ pc = "open"
    /\ exists' = TRUE
    /\ f' = "open"
    /\ rows_to_write' = RowsToWrite(Len(content), country_name, distances)
    /\ pc' = "write"
    /\ UNCHANGED <<linesep, content, sources, country_name, features, sumlength,
                   distances, written, error, history, exists0, content0>>

OpenFails ==
    /\ pc = "open"
    /\ pc' = "failed"
    /\ error' = "OSError"
    /\ UNCHANGED <<linesep, exists, content, sources, country_name, features, sumlength,
                   distances, rows_to_write, f, written, history, exists0, content0>>

(* Mutant: the file is opened for writing, not appending. *)
WriteRowsTruncating ==
    /\ pc = "write"
    /\ content' = WrittenText(rows_to_write, linesep)
    /\ written' = Len(rows_to_write)
    /\ f' = "closed"
    /\ pc' = "done"
    /\ history' = Append(history, [country |-> country_name, distances |-> distances])
    /\ UNCHANGED <<linesep, exists, sources, country_name, features, sumlength, distances,
                   rows_to_write, error, exists0, content0>>

(* thewriter.writerows(rows_to_write), the end of the with block and the return. *)
WriteRows ==
    /\ pc = "write"
    /\ content' = content \o WrittenText(rows_to_write, linesep)
    /\ written' = Len(rows_to_write)
    /\ f' = "closed"
    /\ pc' = "done"
    /\ history' = Append(history, [country |-> country_name, distances |-> distances])
    /\ UNCHANGED <<linesep, exists, sources, country_name, features, sumlength, distances,
                   rows_to_write, error, exists0, content0>>

(* Mutant: a failed write takes back the rows written before it. *)
WriteFailsRollback ==
    /\ pc = "write"
    /\ \E k \in 0..(Len(rows_to_write) - 1) : written' = k
    /\ content' = content
    /\ f' = "closed"
    /\ pc' = "failed"
    /\ error' = "WriteError"
    /\ UNCHANGED <<linesep, exists, sources, country_name, features, sumlength, distances,
                   rows_to_write, history, exists0, content0>>

(* writerows raises at row k + 1: the rows before it stay written, and the *)
(* with block closes the file as the exception passes through it.          *)
WriteFails ==
    /\ pc = "write"
    /\ \E k \in 0..(Len(rows_to_write) - 1) :
          /\ content' = content \o WrittenText(SubSeq(rows_to_write, 1, k), linesep)
          /\ written' = k
    /\ f' = "closed"
    /\ pc' = "failed"
    /\ error' = "WriteError"
    /\ UNCHANGED <<linesep, exists, sources, country_name, features, sumlength, distances,
                   rows_to_write, history, exists0, content0>>

(* The next invocation, on a new instance, against the same path. *)
Again ==
    /\ pc = "done"
    /\ Len(history) < MaxRuns
    /\ pc' = "start"
    /\ sources' = EmptyDict
    /\ country_name' = <<>>
    /\ features' = <<>>
    /\ sumlength' = 0
    /\ distances' = EmptyDict
    /\ rows_to_write' = <<>>
    /\ f' = "unopened"
    /\ written' = 0
    /\ exists0' = exists
    /\ content0' = content
    /\ UNCHANGED <<linesep, exists, content, error, history>>

(* One invocation against a path in any prior state. *)
Next ==
    \/ Begin(CountryNames)
    \/ MeasureLayer(FileLayers)
    \/ MeasureFails
    \/ OpenAppend
    \/ OpenFails
    \/ WriteRows
    \/ WriteFails

Spec == Init /\ [][Next]_vars

(* Repeated invocations against a path that starts absent or empty. *)
InitRuns == \E sep \in LineSeparators : InitWith(sep, FreshFiles)

NextRuns ==
    \/ Begin(CountryNames)
    \/ MeasureLayer(RunLayers)
    \/ MeasureFails
    \/ OpenAppend
    \/ OpenFails
    \/ WriteRows
    \/ WriteFails
    \/ Again

SpecRuns == InitRuns /\ [][NextRuns]_vars

(* The aggregation alone, over more lengths. *)
NextLength ==
    \/ Begin({<<"P", "e", "r", "u">>})
    \/ MeasureLayer(SurveyLayers)
    \/ MeasureFails

InitLength == \E sep \in LineSeparators : InitWith(sep, AbsentFile)

SpecLength == InitLength /\ [][NextLength]_vars

-----------------------------------------------------------------------------
(* Reading a file back: what the claims are stated in. *)

(* The number of lines: the line feeds of the text. *)
LineCount(t) == Cardinality({i \in 1..Len(t) : t[i] = "\n"})

IsPrefix(p, t) == Len(p) <= Len(t) /\ SubSeq(t, 1, Len(p)) = p

(* The text appended to the file since the invocation began. *)
Appended == SubSeq(content, Len(content0) + 1, Len(content))

(* A CSV reader for text in which quotes occur only around and inside     *)
(* quoted fields: a character is outside a quoted field when an even      *)
(* number of quotes precedes it; a line feed outside ends a record (the   *)
(* one or two carriage returns before it dropped: the writer's and the    *)
(* text layer's), a comma outside ends a field; a                         *)
(* field that starts with a quote loses the quotes around it, and each    *)
(* doubled quote inside it is one quote.                                  *)
Outside(t, i) == Cardinality({j \in 1..(i - 1) : t[j] = "\""}) % 2 = 0

(* The k-th smallest element of a set of numbers. *)
Nth(S, k) == CHOOSE p \in S : Cardinality({q \in S : q < p}) = k - 1

Unquote(raw) ==
    IF raw # <<>> /\ raw[1] = "\""
    THEN LET inner == SubSeq(raw, 2, Len(raw) - 1)
             kept == {j \in 1..Len(inner) :
                         \/ inner[j] # "\""
                         \/ Cardinality({q \in 1..j : inner[q] = "\""}) % 2 = 1}
         IN  [m \in 1..Cardinality(kept) |-> inner[Nth(kept, m)]]
    ELSE raw

ParseRecord(r) ==
    LET commas == {i \in 1..Len(r) : r[i] = "," /\ Outside(r, i)}
        from(m) == IF m = 1 THEN 1 ELSE Nth(commas, m - 1) + 1
        to(m) == IF m = Cardinality(commas) + 1 THEN Len(r) ELSE Nth(commas, m) - 1
    IN  [m \in 1..(Cardinality(commas) + 1) |-> Unquote(SubSeq(r, from(m), to(m)))]

ParseCSV(t) ==
    LET ends == {i \in 1..Len(t) : t[i] = "\n" /\ Outside(t, i)}
        last == IF ends = {} THEN 0 ELSE Nth(ends, Cardinality(ends))
        count == Cardinality(ends) + (IF last < Len(t) THEN 1 ELSE 0)
        from(k) == IF k = 1 THEN 1 ELSE Nth(ends, k - 1) + 1
        stop(k) == IF k > Cardinality(ends) THEN Len(t) ELSE Nth(ends, k) - 1
        cr(i, k) == k <= Cardinality(ends) /\ i >= from(k) /\ t[i] = "\r"
        to(k) == IF ~cr(stop(k), k) THEN stop(k)
                 ELSE IF ~cr(stop(k) - 1, k) THEN stop(k) - 1
                 ELSE stop(k) - 2
    IN  [k \in 1..count |-> ParseRecord(SubSeq(t, from(k), to(k)))]

HeaderFields == <<S_Country, S_DataChange, S_Kaart, S_Total>>

(* The two data rows of an invocation with country name c and distances d. *)
AddedFields(c, d) == <<c, S_Added, Str(d["kaart_added"]), Str(d["total_added"])>>

ModifiedFields(c, d) ==
    <<c, S_Modified, Str(d["kaart_modified"]), Str(d["total_modified"])>>

(* The layer measured last, once one is. *)
LastLayer == Order[Cardinality(DOMAIN distances)]

Abs(x) == IF x < 0 THEN -x ELSE x

(* d is s / UnitsPerKm rounded to the nearest integer, a tie to the even one. *)
IsRoundOf(d, s) ==
    /\ 2 * Abs(d * UnitsPerKm - s) <= UnitsPerKm
    /\ 2 * Abs(d * UnitsPerKm - s) = UnitsPerKm => d % 2 = 0

Total(fs) == LET F[i \in 0..Len(fs)] == IF i = 0 THEN 0 ELSE F[i - 1] + fs[i]
             IN  F[Len(fs)]

Untouched == exists = exists0 /\ content = content0

(* One of the resolved sources is None. *)
SomeSourceNone == \E n \in DOMAIN sources : sources[n] = None

-----------------------------------------------------------------------------
(* C1: when the output path is absent or holds zero bytes when the         *)
(* invocation opens it, a successful invocation leaves the file with       *)
(* exactly 3 lines: the header row, then the two data rows.                *)
C1_EmptyFileGetsHeader ==
    (pc = "done" /\ content0 = <<>>) =>
        /\ LineCount(content) = 3
        /\ ParseCSV(content) = <<HeaderFields,
                                 AddedFields(country_name, distances),
                                 ModifiedFields(country_name, distances)>>

C1_Witness ==
    /\ pc = "done"
    /\ ~exists0
    /\ LineCount(content) = 3
    /\ country_name = <<"I", ",", "\"", "C">>

(* C2: when the output path holds a non-empty file, a successful           *)
(* invocation leaves its prior content in place, never truncated, followed *)
(* by exactly 2 data rows and no header, whatever the prior content.       *)
C2_NonEmptyFileAppended ==
    content0 # <<>> =>
        /\ IsPrefix(content0, content)
        /\ pc = "done" =>
              /\ LineCount(content) = LineCount(content0) + 2
              /\ ParseCSV(Appended) = <<AddedFields(country_name, distances),
                                        ModifiedFields(country_name, distances)>>

C2_Witness ==
    /\ pc = "done"
    /\ content0 = <<"x", ",", "y">>
    /\ Len(content) > Len(content0)

(* C3: if any of the four sources resolves to None, the invocation ends    *)
(* with an error before any layer is measured and before the file is       *)
(* opened: the file is neither created nor changed.                        *)
C3_UnresolvedSourceFails ==
    SomeSourceNone =>
        /\ pc = "failed"
        /\ error # "none"
        /\ distances = EmptyDict
        /\ features = <<>>
        /\ f = "unopened"
        /\ Untouched

C3_Witness ==
    /\ pc = "failed"
    /\ sources["kaart_modified"] = None
    /\ \A n \in Layers \ {"kaart_modified"} : sources[n] = Source
    /\ ~exists

(* C4: the error raised when a source fails to resolve is the              *)
(* QgsProcessingException carrying the invalid-source message.             *)
C4_InvalidSourceException ==
    (pc = "failed" /\ SomeSourceNone) => error = "QgsProcessingException"

(* C5: each iteration stores for its layer the sum of its features'        *)
(* lengths, converted to kilometres and rounded, and leaves the distances  *)
(* of the other layers as they are; no feature gives 0, 12,345.6 m gives   *)
(* 12.                                                                     *)
C5_LayerDistance ==
    [][(pc = "measure" /\ distances' # distances) =>
          LET n == Order[Cardinality(DOMAIN distances) + 1] IN
          /\ DOMAIN distances' = (DOMAIN distances) \cup {n}
          /\ \A m \in DOMAIN distances : distances'[m] = distances[m]
          /\ sumlength' = Total(features')
          /\ IsRoundOf(distances'[n], sumlength')
          /\ features' = <<>> => distances'[n] = 0
          /\ sumlength' = 123456 => distances'[n] = 12]_vars

C5_Witness ==
    /\ pc = "open"
    /\ Len(features) = 2
    /\ sumlength = 123456
    /\ distances["kaart_modified"] = 12
    /\ distances["total_added"] = 0

(* C6: a successful invocation ends the file with two data rows: the       *)
(* country name, "Km of road added", the kaart_added and the total_added   *)
(* distances, then the country name, "Km of road edited or modified", the  *)
(* kaart_modified and the total_modified distances; the third field is in  *)
(* the header's Kaart column and the fourth in its Total column.           *)
C6_DataRows ==
    pc = "done" =>
        LET rows == ParseCSV(Appended)
            n == Len(rows)
        IN  /\ n \in {2, 3}
            /\ rows[n - 1] = <<country_name, S_Added,
                               Str(distances["kaart_added"]),
                               Str(distances["total_added"])>>
            /\ rows[n] = <<country_name, S_Modified,
                           Str(distances["kaart_modified"]),
                           Str(distances["total_modified"])>>
            /\ n = 3 => rows[1][3] = S_Kaart /\ rows[1][4] = S_Total

C6_Witness ==
    /\ pc = "done"
    /\ distances["kaart_added"] # distances["total_added"]
    /\ distances["kaart_modified"] # distances["total_modified"]
    /\ distances["kaart_added"] # distances["kaart_modified"]
    /\ Len(ParseCSV(Appended)) = 3

(* C7: after N >= 1 successful invocations against a path that began       *)
(* absent or empty, the file holds 2N + 1 lines: the header once, first,   *)
(* then each invocation's two data rows in invocation order.               *)
C7_HeaderOnceRowsAccumulate ==
    pc = "done" =>
        LET rows == ParseCSV(content)
            N == Len(history)
        IN  /\ N >= 1
            /\ LineCount(content) = 2 * N + 1
            /\ Len(rows) = 2 * N + 1
            /\ rows[1] = HeaderFields
            /\ \A i \in 2..Len(rows) : rows[i] # HeaderFields
            /\ \A k \in 1..N :
                  /\ rows[2 * k] = AddedFields(history[k].country, history[k].distances)
                  /\ rows[2 * k + 1] =
                        ModifiedFields(history[k].country, history[k].distances)

C7_Witness ==
    /\ pc = "done"
    /\ Len(history) = 2
    /\ history[1].country # history[2].country
    /\ history[1].distances # history[2].distances
    /\ LineCount(content) = 5

(* C8: the file is opened only after all four layers are aggregated: a     *)
(* failure while measuring any layer leaves the file neither created nor   *)
(* changed, and a failed invocation that changed the file failed within    *)
(* the write of the rows.                                                  *)
C8_NothingBeforeWrite ==
    /\ f = "unopened" => Untouched
    /\ f # "unopened" => DOMAIN distances = Layers
    /\ (pc = "failed" /\ error = "MeasureError") => f = "unopened"
    /\ (pc = "failed" /\ ~Untouched) => error = "WriteError"

C8_Witness ==
    /\ pc = "failed"
    /\ error = "MeasureError"
    /\ Cardinality(DOMAIN distances) = 3
    /\ ~exists

(* C9: a failed write is not rolled back: the rows written before the one  *)
(* that failed stay in the file after its prior content (on an empty file, *)
(* the header alone or the header and the first data row), and the file    *)
(* is closed, as it is when the invocation returns.                        *)
C9_NoRollback ==
    /\ pc = "done" => f = "closed"
    /\ (pc = "failed" /\ error = "WriteError") =>
        LET rows == ParseCSV(Appended) IN
        /\ f = "closed"
        /\ IsPrefix(content0, content)
        /\ Len(rows) = written
        /\ \A i \in 1..written :
              rows[i] = [j \in 1..Len(rows_to_write[i]) |-> CellText(rows_to_write[i][j])]
        /\ (content0 = <<>> /\ written >= 1) =>
              \/ rows = <<HeaderFields>>
              \/ rows = <<HeaderFields, AddedFields(country_name, distances)>>

C9_Witness ==
    /\ pc = "failed"
    /\ error = "WriteError"
    /\ content0 = <<>>
    /\ written = 1
    /\ LineCount(content) = 1
    /\ content = HeaderLine(linesep)

(* C10: an exact half kilometre rounds to the even neighbour (500 m to 0,  *)
(* 1500 m to 2, 2500 m to 2); any other sum rounds to the nearest integer. *)
C10_TiesToEven ==
    (pc \in {"measure", "open"} /\ distances # EmptyDict) =>
        LET d == distances[LastLayer]
            off == 2 * Abs(d * UnitsPerKm - sumlength)
        IN  /\ 2 * (sumlength % UnitsPerKm) = UnitsPerKm => d % 2 = 0 /\ off = UnitsPerKm
            /\ 2 * (sumlength % UnitsPerKm) # UnitsPerKm => off < UnitsPerKm
            /\ sumlength = 5000 => d = 0
            /\ sumlength = 15000 => d = 2
            /\ sumlength = 25000 => d = 2

C10_Witness ==
    /\ pc = "open"
    /\ sumlength = 15000
    /\ distances["kaart_modified"] = 2
    /\ distances["kaart_added"] = 0
    /\ distances["total_modified"] = 1
    /\ distances["total_added"] = 3

=============================================================================
